---- MODULE Spec2Model ----
(***************************************************************************)
(* Model of the `test` command of workspace-tools                          *)
(* (src/src/workspace/commands/test.py): the default / redevelop /         *)
(* recreate / dependencies modes of test(), the entry-script normalizer    *)
(* strip_version_from_entry_scripts() and the editable-dependency linker   *)
(* install_editable_dependencies().                                        *)
(*                                                                         *)
(* Text is modelled as a sequence of one-character strings.  External      *)
(* programs (tox, pip, the environment's python, the test commands) are    *)
(* nondeterministic: each invocation either exits 0 or exits nonzero.      *)
(***************************************************************************)
EXTENDS Integers, Sequences, FiniteSets, TLC

(* ------------------------------ bounds -------------------------------- *)
\* largest modification time; also the time at which the run happens
MaxTime == 1
\* longest env_or_file argument list
MaxReq == 2
\* longest entry-script content explored by the normalizer specification
MaxLen == 7
\* number of normalizer calls made in a row by the normalizer specification
MaxPasses == 2
\* longest allow-list, dependency list and repository list of the linker specification
MaxList == 2
\* longest dependency list of the report specification
MaxDeps == 2
\* largest version component of the bump_version specification
MaxComponent == 2

(* --------------------------- fixed universe --------------------------- *)
Envs == {"py26", "py27"}
TestFile == "test_a.py"
Products == {"libA", "libB", "libC"}
GroupName == "libs"
NoDir == -1
ToxPath == <<"tox.ini">>
Alphabet == {"a", "=", "1", "."}
VersionChars == {"1", "."}
Digits == {"1"}

(* ------------------------------ helpers ------------------------------- *)
Range(s) == {s[n] : n \in 1..Len(s)}

Max2(a, b) == IF a > b THEN a ELSE b

\* all sequences over S of length 0..n
RECURSIVE SeqsUpTo(_, _)
SeqsUpTo(S, n) ==
  IF n = 0 THEN {<<>>}
  ELSE LET shorter == SeqsUpTo(S, n - 1)
       IN shorter \cup {Append(s, x) : s \in {t \in shorter : Len(t) = n - 1}, x \in S}

NoDupSeqs(S, n) == {s \in SeqsUpTo(S, n) : \A p, q \in 1..Len(s) : p # q => s[p] # s[q]}

(* ---------------- strip_version_from_entry_scripts: regex -------------- *)
\* One pattern character of the product name against one text character.
\* The name is interpolated into the pattern unescaped, so a '.' in the
\* name is the regex wildcard.
MatchChar(p, c) == p = "." \/ p = c

MatchNameAt(nm, s, pos) ==
  /\ pos + Len(nm) - 1 <= Len(s)
  /\ \A m \in 1..Len(nm) : MatchChar(nm[m], s[pos + m - 1])

\* length of the greedy run [0-9\.]+ starting at pos (0 when none)
RECURSIVE VerRun(_, _)
VerRun(s, pos) ==
  IF pos <= Len(s) /\ s[pos] \in VersionChars THEN 1 + VerRun(s, pos + 1) ELSE 0

\* length of the match of '<name>==[0-9\.]+' anchored at pos, 0 when none
MatchLenAt(nm, s, pos) ==
  LET n == Len(nm)
  IN IF /\ MatchNameAt(nm, s, pos)
        /\ pos + n + 1 <= Len(s)
        /\ s[pos + n] = "="
        /\ s[pos + n + 1] = "="
        /\ VerRun(s, pos + n + 2) >= 1
     THEN n + 2 + VerRun(s, pos + n + 2)
     ELSE 0

\* name_version_re.search(script)
Search(nm, s) == \E pos \in 1..Len(s) : MatchLenAt(nm, s, pos) > 0

\* name_version_re.sub(name, script): leftmost non-overlapping matches,
\* scanning left to right from pos
RECURSIVE SubFrom(_, _, _)
SubFrom(nm, s, pos) ==
  IF pos > Len(s) THEN <<>>
  ELSE LET l == MatchLenAt(nm, s, pos)
       IN IF l > 0 THEN nm \o SubFrom(nm, s, pos + l)
          ELSE <<s[pos]>> \o SubFrom(nm, s, pos + 1)

Sub(nm, s) == SubFrom(nm, s, 1)

\* A script directory is [dir, present, text]: whether the directory exists,
\* which script names it lists, and each listed script's content.

RemovedFromAll(nm, d) ==
  IF d.dir THEN d.present ELSE {}

\* the files the pass opens for writing (removed_from)
RemovedFrom(nm, d) ==
  IF d.dir THEN {f \in d.present : Search(nm, d.text[f])} ELSE {}

\* the script directory after the pass
StripDir(nm, d) ==
  IF d.dir
  THEN [d EXCEPT !.text = [f \in DOMAIN d.text |->
          IF f \in d.present /\ Search(nm, d.text[f]) THEN Sub(nm, d.text[f])
          ELSE d.text[f]]]
  ELSE d

(* ------------------------- manifest and workspace ---------------------- *)
ScriptNames == {"py.test", "flake8", "tool"}
\* tox.commands(env): each command is a sequence of words
Commands == << <<"py.test", "{env:PYTESTARGS:}">>, <<"flake8">> >>
\* what the installer generates in an environment's script directory
GeneratedScripts == {"py.test", "tool"}
Plain == <<"=">>
Pinned(nm) == nm \o <<"=", "=", "1", ".", "1">>

\* ','.join(envs): the environment names with a ',' between neighbours
RECURSIVE CommaJoin(_)
CommaJoin(names) ==
  IF names = <<>> THEN <<>>
  ELSE IF Len(names) = 1 THEN <<names[1]>>
  ELSE <<names[1], ",">> \o CommaJoin(Tail(names))

\* expand_product_groups(names): a group name is replaced by its members
GroupMembers == <<"libA", "libB">>
RECURSIVE ExpandProductGroups(_)
ExpandProductGroups(names) ==
  IF names = <<>> THEN <<>>
  ELSE (IF names[1] = GroupName THEN GroupMembers ELSE <<names[1]>>)
         \o ExpandProductGroups(Tail(names))

\* product_path(name) and os.path.basename(path); a path is a sequence of parts
ProductPath(lib) == <<"workspace", lib>>
Basename(path) == path[Len(path)]

\* line 216: [d for d in editable_dependencies if d in available_products and d in product_dependencies]
LibsIgnoringDeclared(editable, available, deps) ==
  SelectSeq(editable, LAMBDA d : d \in Range(available))

Libs(editable, available, deps) ==
  SelectSeq(editable, LAMBDA d : d \in Range(available) /\ d \in Range(deps))

(* -------------------------------- state -------------------------------- *)
VARIABLES
  envlist,        \* tox.envlist
  env_or_file,    \* the arguments of the outer test() call
  mode,           \* "default", "dependencies", "redevelop" or "recreate"
  cwd_paths,      \* the arguments for which os.path.exists() is true
  envdir_mtime,   \* per environment: mtime of tox.envdir(env), NoDir if absent
  setup_mtime,    \* mtime of setup.py
  req_mtime,      \* mtime of requirements.txt, NoDir if absent
  interp,         \* the environments whose bin/python exists
  bin,            \* per environment: its script directory
  installed,      \* per environment and product: "none", "regular", "editable"
  name,           \* product_name(tox.repo)
  config,         \* config.test.editable_product_dependencies.split()
  declared,       \* the product's requires(), as the introspection prints them
  repos,          \* product_repos()
  pc,             \* position in the run
  result,         \* "running", "ok", "raised" (exception left test()), "exit1"
  envs, files,    \* locals of the outer test() call
  i, c,           \* outer loop: index into envs, index into Commands
  s_envs, s_files,\* locals of the redevelop/recreate call (outer or nested)
  s_recreate,     \* its recreate flag
  nested,         \* TRUE when that call was made from the default-mode loop
  j,              \* index into s_envs of the post-step loop
  libs, k,        \* linker: the link list and the index into it
  bin_before,     \* script directory of the last normalizer call, at its entry
  written,        \* files the last normalizer call opened for writing
  passes,         \* number of normalizer calls made
  log,            \* what the run did, in order
  rep_libs,       \* report script: the product's requires(), as r.key names
  rep_dist,       \* report script: what get_distribution(lib) does, per name
  rep_n,          \* report script: number of names of sorted(libs) handled
  rep_output,     \* report script: the list `output`
  rep_stdout,     \* report script: the lines printed so far
  bump_old,       \* bump_version: the components of the version in setup.py
  bump_parts,     \* bump_version: the list version_parts
  bump_major,     \* bump_version: the major flag
  bump_minor,     \* bump_version: the minor flag
  bump_status,    \* bump_version: "pending", "replaced", "returned" or "TypeError"
  bump_new        \* bump_version: the components of new_version

vars == <<envlist, env_or_file, mode, cwd_paths, envdir_mtime, setup_mtime,
          req_mtime, interp, bin, installed, name, config, declared, repos, pc,
          result, envs, files, i, c, s_envs, s_files, s_recreate, nested, j,
          libs, k, bin_before, written, passes, log, rep_libs, rep_dist, rep_n,
          rep_output, rep_stdout, bump_old, bump_parts, bump_major, bump_minor,
          bump_status, bump_new>>

inputVars == <<envlist, env_or_file, mode, cwd_paths, name, config, declared, repos>>
fsVars == <<envdir_mtime, setup_mtime, req_mtime, interp, bin, installed>>
outerVars == <<envs, files, i, c>>
syncVars == <<s_envs, s_files, s_recreate, nested, j>>
linkVars == <<libs, k>>
normVars == <<bin_before, written, passes>>
reportVars == <<rep_libs, rep_dist, rep_n, rep_output, rep_stdout>>
bumpVars == <<bump_old, bump_parts, bump_major, bump_minor, bump_status, bump_new>>
\* what the test command never touches
otherVars == <<reportVars, bumpVars>>
testVars == <<inputVars, fsVars, outerVars, syncVars, linkVars, normVars, result, log>>

\* one entry of the log
Event(op, env, it, argv, ok) == [op |-> op, env |-> env, it |-> it, argv |-> argv, ok |-> ok]
SubprocessOps == {"tox", "introspect", "uninstall", "install", "cmd", "deps"}

\* iteration of the outer default-mode loop an event belongs to (0: none)
Iter == IF nested \/ (mode = "default" /\ pc \in {"loop", "cmds"}) THEN i ELSE 0

(* ------------------------------ test(): entry --------------------------- *)
\* lines 57-65: existing paths are files, everything else an environment name
ArgFiles(args, existing) == SelectSeq(args, LAMBDA ef : ef \in existing)
ArgEnvs(args, existing) == SelectSeq(args, LAMBDA ef : ef \notin existing)
\* lines 79-82: no environment named: the manifest's envlist
ResolveEnvs(args, existing) ==
  IF ArgEnvs(args, existing) = <<>> THEN envlist ELSE ArgEnvs(args, existing)

ToxCmdFirstOnly(es, recreate) ==
  << <<"tox">>, <<"-c">>, ToxPath >>
    \o (IF es # <<>> THEN << <<"-e">>, <<es[1]>> >> ELSE <<>>)
    \o (IF recreate THEN << <<"-r">> >> ELSE <<>>)

\* lines 89-95
ToxCmd(es, recreate) ==
  << <<"tox">>, <<"-c">>, ToxPath >>
    \o (IF es # <<>> THEN << <<"-e">>, CommaJoin(es) >> ELSE <<>>)
    \o (IF recreate THEN << <<"-r">> >> ELSE <<>>)

TestEntry ==
  /\ pc = "start"
  /\ envs' = ResolveEnvs(env_or_file, cwd_paths)
  /\ files' = ArgFiles(env_or_file, cwd_paths)
  /\ IF mode = "dependencies"
     THEN /\ pc' = IF envs' = <<>> THEN "done" ELSE "deps"
          /\ result' = IF envs' = <<>> THEN "ok" ELSE result
          /\ UNCHANGED <<s_envs, s_files, s_recreate>>
     ELSE IF mode \in {"redevelop", "recreate"}
     THEN /\ pc' = "tox"
          /\ s_envs' = envs'
          /\ s_files' = files'
          /\ s_recreate' = (mode = "recreate")
          /\ UNCHANGED result
     ELSE /\ pc' = IF envs' = <<>> THEN "done" ELSE "loop"
          /\ result' = IF envs' = <<>> THEN "ok" ELSE result
          /\ UNCHANGED <<s_envs, s_files, s_recreate>>
  /\ i' = 1
  /\ UNCHANGED <<otherVars, inputVars, fsVars, c, nested, j, linkVars, normVars, log>>

(* ------------------------- returns and exceptions ----------------------- *)
\* workspace.utils.run: a nonzero exit raises unless the caller passed raises=False
RunRaises(ok, raises) == ~ok /\ raises

\* workspace.utils.log_exception: the with-block's exception is logged and
\* does not leave the block
LogExceptionPropagates(raised) == raised /\ FALSE

\* an exception leaves test(): nothing else of the run happens
Raise ==
  /\ pc' = "done"
  /\ result' = "raised"

\* the outer default-mode loop moves to its next environment
NextEnv ==
  /\ i' = i + 1
  /\ pc' = IF i + 1 > Len(envs) THEN "done" ELSE "loop"
  /\ result' = IF i + 1 > Len(envs) THEN "ok" ELSE result

SyncReturnNoContinue ==
  IF nested
  THEN /\ nested' = FALSE
       /\ pc' = "cmds"
       /\ UNCHANGED <<i, result>>
  ELSE /\ pc' = "done"
       /\ result' = "ok"
       /\ UNCHANGED <<i, nested>>

\* the redevelop/recreate call returns: to the `continue` of line 115 when
\* nested, to the caller of the command otherwise
SyncReturn ==
  IF nested
  THEN /\ nested' = FALSE
       /\ NextEnv
  ELSE /\ pc' = "done"
       /\ result' = "ok"
       /\ UNCHANGED <<i, nested>>

\* lines 99-101: the post-step loop moves to its next environment
PostStepNext ==
  IF j < Len(s_envs)
  THEN /\ j' = j + 1
       /\ pc' = "strip"
       /\ UNCHANGED <<i, nested, result>>
  ELSE /\ j' = j
       /\ SyncReturn

(* --------------------- test(): dependencies mode ------------------------ *)
InterpreterNeverMissing(env) == env # env

\* lines 195-197: not os.path.exists(tox.bindir(env, 'python'))
InterpreterMissing(env) == env \notin interp

\* lines 84-86 and 192-201: the report of one environment
ShowInstalledDependencies ==
  /\ pc = "deps"
  /\ LET env == envs[i]
     IN IF InterpreterMissing(env)
        THEN /\ log' = Append(log, Event("error", env, 0, <<>>, FALSE))
             /\ pc' = "done"
             /\ result' = "exit1"
             /\ UNCHANGED i
        ELSE \E ok \in BOOLEAN :
               /\ log' = Append(log, Event("deps", env, 0,
                                  << <<"python">>, <<"-c">>, <<"script">> >>, ok))
               /\ IF RunRaises(ok, TRUE)
                  THEN Raise /\ UNCHANGED i
                  ELSE /\ i' = i + 1
                       /\ pc' = IF i + 1 > Len(envs) THEN "done" ELSE "deps"
                       /\ result' = IF i + 1 > Len(envs) THEN "ok" ELSE result
  /\ UNCHANGED <<otherVars, inputVars, fsVars, envs, files, c, syncVars, linkVars, normVars>>

(* ------------------ test(): redevelop / recreate mode ------------------- *)
\* what a successful tox run leaves behind for the environments it was given
ToxEnvdir(touched) ==
  [e \in Envs |->
     IF e \in Range(s_envs)
     THEN IF envdir_mtime[e] = NoDir \/ s_recreate \/ e \in touched
          THEN MaxTime ELSE envdir_mtime[e]
     ELSE envdir_mtime[e]]

ToxBin ==
  [e \in Envs |->
     IF e \in Range(s_envs)
     THEN [dir |-> TRUE,
           present |-> (IF s_recreate THEN {} ELSE bin[e].present) \cup GeneratedScripts,
           text |-> [f \in ScriptNames |->
                       IF f = "tool" THEN Pinned(name)
                       ELSE IF f = "py.test" THEN Plain
                       ELSE IF s_recreate THEN <<>> ELSE bin[e].text[f]]]
     ELSE bin[e]]

ToxInstalled ==
  [e \in Envs |->
     IF e \in Range(s_envs)
     THEN [p \in Products |->
             IF p \in Range(declared)
             THEN IF installed[e][p] = "editable" /\ ~s_recreate THEN "editable" ELSE "regular"
             ELSE IF s_recreate THEN "none" ELSE installed[e][p]]
     ELSE installed[e]]

ToxFailureIgnored ==
  /\ pc' = "strip"
  /\ j' = 1
  /\ UNCHANGED <<result, envdir_mtime, bin, installed, interp, i, nested>>

\* line 97 when run() raises: nothing catches it in test(), nor around the
\* nested call of line 114
ToxFailure ==
  /\ Raise
  /\ UNCHANGED <<envdir_mtime, bin, installed, interp, i, nested, j>>

\* lines 89-97
RunTox ==
  /\ pc = "tox"
  /\ \E ok \in BOOLEAN :
       /\ log' = Append(log, Event("tox", "", Iter, ToxCmd(s_envs, s_recreate), ok))
       /\ IF ~RunRaises(ok, TRUE)
          THEN /\ \E touched \in SUBSET Range(s_envs) : envdir_mtime' = ToxEnvdir(touched)
               /\ bin' = ToxBin
               /\ installed' = ToxInstalled
               /\ interp' = interp \cup Range(s_envs)
               /\ IF s_envs = <<>>
                  THEN SyncReturn /\ j' = j
                  ELSE /\ pc' = "strip"
                       /\ j' = 1
                       /\ UNCHANGED <<i, nested, result>>
          ELSE ToxFailure
  /\ UNCHANGED <<otherVars, inputVars, setup_mtime, req_mtime, envs, files, c, s_envs, s_files,
                 s_recreate, linkVars, normVars>>

(* ------------------ strip_version_from_entry_scripts -------------------- *)
\* lines 136-152, applied to the script directory of env
StripEffect(env) ==
  /\ bin_before' = bin[env]
  /\ written' = RemovedFrom(name, bin[env])
  /\ bin' = [bin EXCEPT ![env] = StripDir(name, bin[env])]
  /\ passes' = passes + 1

\* line 100
StripVersionFromEntryScripts ==
  /\ pc = "strip"
  /\ StripEffect(s_envs[j])
  /\ log' = Append(log, Event("strip", s_envs[j], Iter, <<>>, TRUE))
  /\ pc' = "link"
  /\ UNCHANGED <<otherVars, inputVars, envdir_mtime, setup_mtime, req_mtime, interp, installed,
                 result, outerVars, syncVars, linkVars>>

(* -------------------- install_editable_dependencies --------------------- *)
AvailableProducts == [n \in 1..Len(repos) |-> Basename(repos[n])]

AllowListNeverEmpty == config # config

\* line 205: not config.test.editable_product_dependencies
AllowListEmpty == config = <<>>

\* lines 204-216
InstallEditableDependencies ==
  /\ pc = "link"
  /\ LET env == s_envs[j]
         call == Event("link", env, Iter, <<>>, TRUE)
     IN IF AllowListEmpty
        THEN /\ log' = Append(log, call)
             /\ PostStepNext
             /\ UNCHANGED linkVars
        ELSE \E ok \in {b \in BOOLEAN : b => env \in interp} :
               /\ log' = log \o <<call, Event("introspect", env, Iter,
                                    << <<"python">>, <<"-c">>, <<"script">> >>, ok)>>
               /\ IF ~RunRaises(ok, TRUE)
                  THEN /\ libs' = Libs(ExpandProductGroups(config), AvailableProducts, declared)
                       /\ IF libs' = <<>>
                          THEN PostStepNext /\ k' = k
                          ELSE /\ pc' = "link_loop"
                               /\ k' = 1
                               /\ UNCHANGED <<i, nested, result, j>>
                  ELSE /\ Raise
                       /\ UNCHANGED <<linkVars, i, nested, j>>
  /\ UNCHANGED <<otherVars, inputVars, fsVars, envs, files, c, s_envs, s_files, s_recreate, normVars>>

\* lines 223-227: does the with-block of one product end the loop?  The
\* uninstall is run with raises=False, the install with the default.
LinkBlockAbortsUnguarded(uok, iok) == RunRaises(uok, FALSE) \/ RunRaises(iok, TRUE)

LinkBlockAborts(uok, iok) ==
  LogExceptionPropagates(RunRaises(uok, FALSE) \/ RunRaises(iok, TRUE))

LinkCallsInstallFirst(uninstall, install) == <<install, uninstall>>

\* lines 224-227: the two pip invocations of one product, in program order
LinkCalls(uninstall, install) == <<uninstall, install>>

\* lines 220-227: one iteration of the loop over libs
LinkLib ==
  /\ pc = "link_loop"
  /\ LET env == s_envs[j]
         lib == libs[k]
         uninstall(uok) == Event("uninstall", env, Iter,
                             << <<"pip">>, <<"uninstall">>, <<lib>>, <<"-y">> >>, uok)
         install(iok) == Event("install", env, Iter,
                           << <<"pip">>, <<"install">>, <<"--editable">>, ProductPath(lib) >>, iok)
     IN \E uok, iok \in BOOLEAN :
          /\ IF RunRaises(uok, FALSE)
             THEN /\ log' = Append(log, uninstall(uok))
                  /\ UNCHANGED installed
             ELSE /\ log' = log \o LinkCalls(uninstall(uok), install(iok))
                  /\ installed' = [installed EXCEPT ![env][lib] =
                                     IF iok THEN "editable" ELSE IF uok THEN "none" ELSE @]
          /\ IF LinkBlockAborts(uok, iok)
             THEN /\ Raise
                  /\ UNCHANGED <<k, i, nested, j>>
             ELSE IF k < Len(libs)
             THEN /\ k' = k + 1
                  /\ UNCHANGED <<pc, i, nested, result, j>>
             ELSE /\ k' = k
                  /\ PostStepNext
  /\ UNCHANGED <<otherVars, inputVars, envdir_mtime, setup_mtime, req_mtime, interp, bin, envs,
                 files, c, s_envs, s_files, s_recreate, libs, normVars>>

(* ------------------------- test(): default mode ------------------------- *)
RequirementsUpdatedOrEqual(env) ==
  LET m == IF req_mtime # NoDir THEN Max2(setup_mtime, req_mtime) ELSE setup_mtime
  IN m >= envdir_mtime[env]

\* lines 107-111
RequirementsUpdated(env) ==
  LET m == IF req_mtime # NoDir THEN Max2(setup_mtime, req_mtime) ELSE setup_mtime
  IN m > envdir_mtime[env]

\* line 113
IsStale(env) == envdir_mtime[env] = NoDir \/ RequirementsUpdated(env)

\* lines 104-115: one environment of the loop is examined; a stale one is
\* handed to test([env], redevelop=True), whose entry code runs here
TestLoopEnv ==
  /\ pc = "loop"
  /\ LET env == envs[i]
     IN /\ log' = Append(log, Event("stale", env, i, <<>>, IsStale(env)))
        /\ IF IsStale(env)
           THEN /\ nested' = TRUE
                /\ s_envs' = ResolveEnvs(<<env>>, cwd_paths)
                /\ s_files' = ArgFiles(<<env>>, cwd_paths)
                /\ s_recreate' = FALSE
                /\ pc' = "tox"
                /\ UNCHANGED c
           ELSE /\ pc' = "cmds"
                /\ c' = 1
                /\ UNCHANGED <<nested, s_envs, s_files, s_recreate>>
  /\ UNCHANGED <<otherVars, inputVars, fsVars, result, envs, files, i, j, linkVars, normVars>>

\* lines 121-126: the command's words, PYTESTARGS replaced for py.test
RECURSIVE FullCommand(_, _)
FullCommand(cmd, fs) ==
  IF cmd = <<>> THEN <<>>
  ELSE (IF cmd[1] = "{env:PYTESTARGS:}" THEN [n \in 1..Len(fs) |-> <<fs[n]>>]
        ELSE << <<cmd[1]>> >>) \o FullCommand(Tail(cmd), fs)

CommandExistsAlways(env, command) == command = command

\* lines 121-124: os.path.exists(command_path), the command's first word in
\* the environment's bin directory
CommandExists(env, command) == bin[env].dir /\ command[1] \in bin[env].present

\* lines 120-132: one command of the current environment
RunCommand ==
  /\ pc = "cmds"
  /\ LET env == envs[i]
         command == Commands[c]
         step == IF c < Len(Commands)
                 THEN c' = c + 1 /\ UNCHANGED <<pc, i, result>>
                 ELSE c' = c /\ NextEnv
     IN IF CommandExists(env, command)
        THEN \E ok \in BOOLEAN :
               /\ log' = Append(log, Event("cmd", env, i, FullCommand(command, files), ok))
               /\ IF RunRaises(ok, TRUE) THEN Raise /\ UNCHANGED <<c, i>> ELSE step
        ELSE /\ log' = Append(log, Event("error", env, i, << <<command[1]>> >>, FALSE))
             /\ step
  /\ UNCHANGED <<otherVars, inputVars, fsVars, envs, files, syncVars, linkVars, normVars>>

(* ------------------------------ the run -------------------------------- *)
EmptyBin == [dir |-> FALSE, present |-> {}, text |-> [f \in ScriptNames |-> <<>>]]

InitialBin(env, nm) ==
  IF env = "py26"
  THEN [dir |-> TRUE, present |-> {"py.test", "flake8", "tool"},
        text |-> [f \in ScriptNames |-> IF f = "tool" THEN nm ELSE Plain]]
  ELSE [dir |-> TRUE, present |-> {"py.test", "tool"},
        text |-> [f \in ScriptNames |->
                    IF f = "tool" THEN Pinned(nm) ELSE IF f = "py.test" THEN Plain ELSE <<>>]]

\* the report script and bump_version are not running
ReportIdle ==
  /\ rep_libs = <<>> /\ rep_dist = <<>> /\ rep_n = 0
  /\ rep_output = <<>> /\ rep_stdout = <<>>

BumpIdle ==
  /\ bump_old = <<>>
  /\ bump_parts = <<>> /\ bump_major = FALSE /\ bump_minor = FALSE
  /\ bump_status = "pending" /\ bump_new = <<>>

InitLocals ==
  /\ ReportIdle
  /\ BumpIdle
  /\ result = "running"
  /\ envs = <<>> /\ files = <<>> /\ i = 1 /\ c = 1
  /\ s_envs = <<>> /\ s_files = <<>> /\ s_recreate = FALSE /\ nested = FALSE /\ j = 1
  /\ libs = <<>> /\ k = 1
  /\ bin_before = EmptyBin /\ written = {} /\ passes = 0
  /\ log = <<>>

Init ==
  /\ envlist = <<"py26", "py27">>
  /\ env_or_file \in SeqsUpTo(Envs \cup {TestFile}, MaxReq)
  /\ mode \in {"default", "dependencies", "redevelop", "recreate"}
  /\ cwd_paths \in {{TestFile}, {TestFile, "py27"}}
  /\ envdir_mtime \in [Envs -> {NoDir} \cup 0..MaxTime]
  \* only the default mode reads the declaration files' times
  /\ setup_mtime \in (IF mode = "default" THEN 0..MaxTime ELSE {0})
  /\ req_mtime \in (IF mode = "default" THEN {NoDir} \cup 0..MaxTime ELSE {NoDir})
  /\ interp = {e \in Envs : envdir_mtime[e] # NoDir}
  /\ name = <<"a">>
  /\ bin = [e \in Envs |-> IF envdir_mtime[e] = NoDir THEN EmptyBin ELSE InitialBin(e, name)]
  /\ config \in {<<>>, <<"libA", "libB">>}
  /\ declared = <<"libA", "libC">>
  /\ repos = <<ProductPath("libA"), ProductPath("libB")>>
  /\ installed = [e \in Envs |-> [p \in Products |->
        IF envdir_mtime[e] # NoDir /\ p \in Range(declared) THEN "regular" ELSE "none"]]
  /\ pc = "start"
  /\ InitLocals

Next ==
  \/ TestEntry
  \/ ShowInstalledDependencies
  \/ RunTox
  \/ StripVersionFromEntryScripts
  \/ InstallEditableDependencies
  \/ LinkLib
  \/ TestLoopEnv
  \/ RunCommand

Spec == Init /\ [][Next]_vars

(* ------------- the normalizer on its own: repeated passes --------------- *)
NormEnv == "py27"
NormNames == {<<"a">>, <<"a", ".">>}

\* strip_version_from_entry_scripts(tox, env) called directly
NormalizeCall ==
  /\ pc = "norm"
  /\ passes < MaxPasses
  /\ StripEffect(NormEnv)
  /\ log' = Append(log, Event("strip", NormEnv, 0, <<>>, TRUE))
  /\ UNCHANGED <<otherVars, inputVars, envdir_mtime, setup_mtime, req_mtime, interp, installed, pc,
                 result, outerVars, syncVars, linkVars>>

InitNorm ==
  /\ envlist = <<"py26", "py27">>
  /\ env_or_file = <<NormEnv>>
  /\ mode = "redevelop"
  /\ cwd_paths = {TestFile}
  /\ envdir_mtime = [e \in Envs |-> IF e = NormEnv THEN MaxTime ELSE NoDir]
  /\ setup_mtime = 0
  /\ req_mtime = NoDir
  /\ interp = {NormEnv}
  /\ name \in NormNames
  /\ \E d \in BOOLEAN, t1 \in SeqsUpTo(Alphabet, MaxLen), t2 \in {Plain, Pinned(name)} :
       bin = [e \in Envs |->
                IF e = NormEnv
                THEN [dir |-> d, present |-> IF d THEN {"tool", "py.test"} ELSE {},
                      text |-> [f \in ScriptNames |->
                                  IF ~d \/ f = "flake8" THEN <<>>
                                  ELSE IF f = "tool" THEN t1 ELSE t2]]
                ELSE EmptyBin]
  /\ config = <<>>
  /\ declared = <<>>
  /\ repos = <<>>
  /\ installed = [e \in Envs |-> [p \in Products |-> "none"]]
  /\ pc = "norm"
  /\ InitLocals

NextNorm == NormalizeCall

SpecNorm == InitNorm /\ [][NextNorm]_vars

(* ----------------- the linker on its own: one call ---------------------- *)
LinkEnv == "py27"

InitLink ==
  /\ envlist = <<"py26", "py27">>
  /\ env_or_file = <<LinkEnv>>
  /\ mode = "redevelop"
  /\ cwd_paths = {TestFile}
  /\ envdir_mtime = [e \in Envs |-> IF e = LinkEnv THEN MaxTime ELSE NoDir]
  /\ setup_mtime = 0
  /\ req_mtime = NoDir
  /\ interp \in {{}, {LinkEnv}}
  /\ name = <<"a">>
  /\ bin = [e \in Envs |-> IF e = LinkEnv THEN InitialBin("py26", name) ELSE EmptyBin]
  /\ config \in NoDupSeqs(Products \cup {GroupName}, MaxList)
  /\ declared \in NoDupSeqs(Products, MaxList)
  /\ \E rs \in NoDupSeqs(Products, MaxList) : repos = [n \in 1..Len(rs) |-> ProductPath(rs[n])]
  /\ installed = [e \in Envs |-> [p \in Products |->
        IF e = LinkEnv /\ p \in Range(declared) THEN "regular" ELSE "none"]]
  /\ pc = "link"
  /\ result = "running"
  /\ envs = <<LinkEnv>> /\ files = <<>> /\ i = 1 /\ c = 1
  /\ s_envs = <<LinkEnv>> /\ s_files = <<>> /\ s_recreate = FALSE /\ nested = FALSE /\ j = 1
  /\ libs = <<>> /\ k = 1
  /\ bin_before = EmptyBin /\ written = {} /\ passes = 0
  /\ log = <<>>
  /\ ReportIdle
  /\ BumpIdle

NextLink ==
  \/ InstallEditableDependencies
  \/ LinkLib

SpecLink == InitLink /\ [][NextLink]_vars

(* ------------- the report script of show_installed_dependencies --------- *)
\* dependency names are sequences of the characters a < b
DepNames == {<<"a">>, <<"b">>, <<"a", "a">>, <<"a", "b">>, <<"b", "a">>}
CharRank(ch) == IF ch = "a" THEN 1 ELSE 2
\* what get_distribution(lib) does: a distribution located in the repository,
\* in a sibling product or elsewhere, DistributionNotFound, or another error
DistKinds == {"in_repo", "in_sibling", "elsewhere", "missing", "error"}
Cwd == <<"workspace", "repo">>
WorkspaceDir == SubSeq(Cwd, 1, Len(Cwd) - 1)
Location(kind) ==
  IF kind = "in_repo" THEN Cwd \o <<"src">>
  ELSE IF kind = "in_sibling" THEN WorkspaceDir \o <<"libA">>
  ELSE <<"usr", "lib">>

\* Python's order on strings
RECURSIVE LexLess(_, _)
LexLess(x, y) ==
  IF x = <<>> THEN y # <<>>
  ELSE IF y = <<>> THEN FALSE
  ELSE IF CharRank(x[1]) < CharRank(y[1]) THEN TRUE
  ELSE IF CharRank(x[1]) > CharRank(y[1]) THEN FALSE
  ELSE LexLess(Tail(x), Tail(y))

RECURSIVE InsertSorted(_, _)
InsertSorted(x, s) ==
  IF s = <<>> THEN <<x>>
  ELSE IF LexLess(x, s[1]) THEN <<x>> \o s
  ELSE <<s[1]>> \o InsertSorted(x, Tail(s))

\* Python's sorted()
RECURSIVE Sorted(_)
Sorted(ls) ==
  IF ls = <<>> THEN <<>> ELSE InsertSorted(ls[Len(ls)], Sorted(SubSeq(ls, 1, Len(ls) - 1)))

LookupOrderAsDeclared(ls) == ls

\* line 180: the order in which the loop visits libs
LookupOrder(ls) == Sorted(ls)

IsPrefix(pre, path) == Len(pre) <= Len(path) /\ SubSeq(path, 1, Len(pre)) = pre

\* lines 173-178
StripCwd(dir) ==
  IF Len(dir) > Len(Cwd) /\ IsPrefix(Cwd, dir)
  THEN SubSeq(dir, Len(Cwd) + 1, Len(dir))
  ELSE IF IsPrefix(WorkspaceDir, dir)
  THEN <<"..">> \o SubSeq(dir, Len(WorkspaceDir) + 1, Len(dir))
  ELSE dir

\* one line of the script's output
Line(kind, lib, loc) == [kind |-> kind, lib |-> lib, loc |-> loc]

\* line 183: what the lookup of lib appends to `output`
BufferedLines(lib) ==
  IF rep_dist[lib] \in {"in_repo", "in_sibling", "elsewhere"}
  THEN <<Line("dist", lib, StripCwd(Location(rep_dist[lib])))>>
  ELSE <<>>

PrintedLinesErrorsDropped(lib) ==
  IF rep_dist[lib] = "missing" THEN <<Line("missing", lib, <<>>)>> ELSE <<>>

\* lines 184-187: what the lookup of lib prints at once; the error line
\* carries the text of the error raised for lib
PrintedLines(lib) ==
  IF rep_dist[lib] = "missing" THEN <<Line("missing", lib, <<>>)>>
  ELSE IF rep_dist[lib] = "error" THEN <<Line("error", lib, <<>>)>>
  ELSE <<>>

\* lines 169-171
ReportStart ==
  /\ pc = "report"
  /\ rep_output' = <<>>
  /\ rep_stdout' = <<Line("header", <<>>, <<>>)>>
  /\ rep_n' = 0
  /\ pc' = "report_loop"
  /\ UNCHANGED <<rep_libs, rep_dist, bumpVars, testVars>>

\* lines 180-187: one iteration over sorted(libs)
ReportLookup ==
  /\ pc = "report_loop"
  /\ rep_n < Len(rep_libs)
  /\ LET lib == LookupOrder(rep_libs)[rep_n + 1]
     IN /\ rep_output' = rep_output \o BufferedLines(lib)
        /\ rep_stdout' = rep_stdout \o PrintedLines(lib)
  /\ rep_n' = rep_n + 1
  /\ UNCHANGED <<pc, rep_libs, rep_dist, bumpVars, testVars>>

\* line 189: print '\n'.join(output), an empty line when output is empty
ReportFlush ==
  /\ pc = "report_loop"
  /\ rep_n = Len(rep_libs)
  /\ rep_stdout' = rep_stdout \o
       (IF rep_output = <<>> THEN <<Line("blank", <<>>, <<>>)>> ELSE rep_output)
  /\ pc' = "done"
  /\ UNCHANGED <<rep_libs, rep_dist, rep_n, rep_output, bumpVars, testVars>>

\* the test command is not running
TestIdle ==
  /\ envlist = <<"py26", "py27">>
  /\ env_or_file = <<>>
  /\ mode = "dependencies"
  /\ cwd_paths = {TestFile}
  /\ envdir_mtime = [e \in Envs |-> MaxTime]
  /\ setup_mtime = 0
  /\ req_mtime = NoDir
  /\ interp = Envs
  /\ name = <<"a">>
  /\ bin = [e \in Envs |-> InitialBin(e, name)]
  /\ config = <<>>
  /\ declared = <<>>
  /\ repos = <<>>
  /\ installed = [e \in Envs |-> [p \in Products |-> "none"]]
  /\ result = "running"
  /\ envs = <<>> /\ files = <<>> /\ i = 1 /\ c = 1
  /\ s_envs = <<>> /\ s_files = <<>> /\ s_recreate = FALSE /\ nested = FALSE /\ j = 1
  /\ libs = <<>> /\ k = 1
  /\ bin_before = EmptyBin /\ written = {} /\ passes = 0
  /\ log = <<>>

InitReport ==
  /\ TestIdle
  /\ BumpIdle
  /\ rep_libs \in NoDupSeqs(DepNames, MaxDeps)
  /\ rep_dist \in [Range(rep_libs) -> DistKinds]
  /\ rep_n = 0
  /\ rep_output = <<>>
  /\ rep_stdout = <<>>
  /\ pc = "report"

NextReport ==
  \/ ReportStart
  \/ ReportLookup
  \/ ReportFlush

SpecReport == InitReport /\ [][NextReport]_vars

(* ------------------------ bump_version of publish.py -------------------- *)
\* an element of version_parts: a string of digits or a Python int, with its value
StrPart(n) == [t |-> "str", v |-> n]
IntPart(n) == [t |-> "int", v |-> n]

\* the version strings of one to three components found in setup.py
Versions == UNION {[1..n -> 0..MaxComponent] : n \in 1..3}

\* line 69: match.group(2).split('.')
Split(version) == [n \in 1..Len(version) |-> StrPart(version[n])]

\* line 70, as a position of a sequence that starts at 1
SelectedIndex(major, minor) == IF major THEN 1 ELSE IF minor THEN 2 ELSE 3

\* lines 72-73: version_parts.append(0) until the selected component exists
Padded(parts, sel) ==
  parts \o [n \in 1..Max2(0, sel - Len(parts)) |-> IntPart(0)]

\* lines 75-76
Zeroed(parts, sel) ==
  [n \in 1..Len(parts) |-> IF n > sel THEN StrPart(0) ELSE parts[n]]

\* line 78: int() takes a string of digits and an int alike
Incremented(parts, sel) ==
  [parts EXCEPT ![sel] = StrPart(parts[sel].v + 1)]

\* line 79: '.'.join raises TypeError on an element that is not a string
Joinable(parts) == \A n \in 1..Len(parts) : parts[n].t = "str"

\* lines 66-81: the callback of re.sub on the matched version
ReplaceVersion ==
  /\ pc = "bump"
  /\ LET sel == SelectedIndex(bump_major, bump_minor)
         parts == Incremented(Zeroed(Padded(bump_parts, sel), sel), sel)
     IN /\ bump_parts' = parts
        /\ IF Joinable(parts)
           THEN /\ bump_new' = [n \in 1..Len(parts) |-> parts[n].v]
                /\ bump_status' = "replaced"
                /\ pc' = "bump_write"
           ELSE /\ bump_new' = <<>>
                /\ bump_status' = "TypeError"
                /\ pc' = "done"
  /\ UNCHANGED <<bump_old, bump_major, bump_minor, reportVars, testVars>>

\* lines 85-92: setup.py is rewritten and the new version returned
BumpVersionReturn ==
  /\ pc = "bump_write"
  /\ bump_status' = "returned"
  /\ pc' = "done"
  /\ UNCHANGED <<bump_old, bump_parts, bump_major, bump_minor, bump_new,
                 reportVars, testVars>>

InitBump ==
  /\ TestIdle
  /\ ReportIdle
  /\ bump_old \in Versions
  /\ bump_parts = Split(bump_old)
  /\ bump_major \in BOOLEAN
  /\ bump_minor \in BOOLEAN
  /\ bump_status = "pending"
  /\ bump_new = <<>>
  /\ pc = "bump"

NextBump ==
  \/ ReplaceVersion
  \/ BumpVersionReturn

SpecBump == InitBump /\ [][NextBump]_vars

(* ============================== properties ============================== *)
Events(op) == {p \in 1..Len(log) : log[p].op = op}
EventsOf(op, env) == {p \in 1..Len(log) : log[p].op = op /\ log[p].env = env}
EventsIn(op, it) == {p \in 1..Len(log) : log[p].op = op /\ log[p].it = it}

\* the claim's wording of staleness: the root is missing, or a declaration
\* file is strictly newer than the root
DeclaredStale(env) ==
  \/ envdir_mtime[env] = NoDir
  \/ setup_mtime > envdir_mtime[env]
  \/ (req_mtime # NoDir /\ req_mtime > envdir_mtime[env])

\* C1: in a default-mode run, the step that examines environment E starts a
\* synchronization (the nested redevelop call, whose next step invokes tox)
\* if and only if E's root is missing or setup.py / an existing
\* requirements.txt is strictly newer than the root; a root at least as new
\* as both goes on to its commands and no tool invocation is logged.
C1_SyncIffStale ==
  [][pc = "loop" =>
       /\ (pc' = "tox" /\ nested') <=> DeclaredStale(envs[i])
       /\ ~DeclaredStale(envs[i]) => (pc' = "cmds" /\ ~nested' /\ Events("tox") = {p \in 1..Len(log') : log'[p].op = "tox"})]_vars

C1_Witness ==
  /\ mode = "default"
  /\ pc = "cmds"
  /\ envdir_mtime[envs[i]] = setup_mtime
  /\ req_mtime = setup_mtime
  /\ \E p \in Events("stale") : log[p].ok /\ log[p].it < i

\* C2 as stated: a default-mode run that ends normally has, for every
\* environment found stale, run (or tried to run) that environment's
\* commands after the staleness check.
C2_CommandsRunAfterRedevelop ==
  (pc = "done" /\ result = "ok" /\ mode = "default") =>
    \A p \in Events("stale") :
      log[p].ok =>
        \E q \in p + 1..Len(log) :
          log[q].op \in {"cmd", "error"} /\ log[q].env = log[p].env

\* C2 amended: in a default-mode run, the iteration that finds E stale hands
\* E to the build tool (the event after the check is the tox invocation of
\* that iteration) and runs none of E's commands: the loop continues with
\* the next requested environment.
C2_StaleIterationRunsNoCommand ==
  \A p \in Events("stale") :
    log[p].ok =>
      /\ EventsIn("cmd", log[p].it) = {}
      /\ EventsIn("error", log[p].it) = {}
      /\ p < Len(log) => (log[p + 1].op = "tox" /\ log[p + 1].it = log[p].it)
      /\ p = Len(log) => pc = "tox"

C2_Witness ==
  /\ mode = "default"
  /\ pc = "cmds"
  /\ i = 2
  /\ \E p \in Events("stale") : log[p].ok /\ log[p].it = 1 /\ log[p + 1].ok

\* the names of a comma-joined word, and whether the word is names separated
\* by single commas
JoinedNames(w) == [n \in 1..((Len(w) + 1) \div 2) |-> w[2 * n - 1]]
WellJoined(w) ==
  /\ Len(w) % 2 = 1
  /\ \A n \in 1..Len(w) : (n % 2 = 0) <=> (w[n] = ",")

\* a tox command line scoped to the manifest and to exactly the list es
ScopedTo(argv, es, recreate) ==
  /\ Len(argv) = 3 + (IF es # <<>> THEN 2 ELSE 0) + (IF recreate THEN 1 ELSE 0)
  /\ argv[1] = <<"tox">> /\ argv[2] = <<"-c">> /\ argv[3] = ToxPath
  /\ es # <<>> => (argv[4] = <<"-e">> /\ WellJoined(argv[5]) /\ JoinedNames(argv[5]) = es)
  /\ recreate => argv[Len(argv)] = <<"-r">>

\* C3 as stated: a test run never issues more than one invocation of the
\* environment-build tool.
C3_OneInvocationPerRun == Cardinality(Events("tox")) <= 1

\* C3 amended: every redevelop/recreate call issues exactly one invocation of
\* the build tool, scoped to the manifest and to all environments of the
\* call, comma-joined in one -e argument (with -r on recreate); an explicit
\* request therefore issues exactly one invocation for its k environments,
\* while a default-mode run issues one invocation per iteration that finds
\* its environment stale.
C3_OneInvocationPerCall ==
  /\ mode \in {"redevelop", "recreate"} =>
       /\ Cardinality(Events("tox")) = (IF pc \in {"start", "tox"} THEN 0 ELSE 1)
       /\ \A p \in Events("tox") : ScopedTo(log[p].argv, envs, mode = "recreate")
  /\ mode = "default" =>
       /\ \A p \in Events("stale") :
            Cardinality(EventsIn("tox", log[p].it)) =
              (IF log[p].ok /\ p < Len(log) THEN 1 ELSE 0)
       /\ \A p \in Events("tox") :
            /\ log[p - 1].op = "stale" /\ log[p - 1].ok
            /\ ScopedTo(log[p].argv,
                        IF log[p - 1].env \in cwd_paths THEN envlist ELSE <<log[p - 1].env>>,
                        FALSE)
  /\ mode = "dependencies" => Events("tox") = {}

C3_Witness ==
  /\ mode = "recreate"
  /\ pc = "done"
  /\ result = "ok"
  /\ envs = <<"py27", "py26">>

\* C4 as stated: once the build tool has succeeded for a redevelop/recreate
\* call, the normalizer and the linker never run more than once for an
\* environment and never for one outside the call's list, the normalizer
\* comes first, and when the command has ended both have run exactly once
\* for every environment of the call.
C4_PostStepsOncePerEnvironment ==
  (mode \in {"redevelop", "recreate"} /\ \E p \in Events("tox") : log[p].ok) =>
    /\ \A e \in Envs :
         /\ Cardinality(EventsOf("strip", e)) <= 1
         /\ Cardinality(EventsOf("link", e)) <= 1
         /\ e \notin Range(s_envs) => (EventsOf("strip", e) = {} /\ EventsOf("link", e) = {})
         /\ \A q \in EventsOf("link", e) : \E p \in EventsOf("strip", e) : p < q
    /\ pc = "done" =>
         \A e \in Range(s_envs) :
           Cardinality(EventsOf("strip", e)) = 1 /\ Cardinality(EventsOf("link", e)) = 1

\* C5: a nonzero exit of the build tool is the last thing the run does: the
\* exception leaves test(), no normalizer, linker or command step follows
\* it, in explicit and in default mode alike.
C5_SyncFailureAborts ==
  \A p \in Events("tox") :
    ~log[p].ok => (p = Len(log) /\ pc = "done" /\ result = "raised")

C5_Witness ==
  /\ mode = "default"
  /\ pc = "done"
  /\ i < Len(envs)
  /\ log # <<>>
  /\ log[Len(log)].op = "tox"
  /\ ~log[Len(log)].ok

(* ----------------------- normalizer properties -------------------------- *)
\* the pattern '<name>==' followed by a version character occurs at pos
PatternOccursAt(nm, s, pos) ==
  /\ pos + Len(nm) + 2 <= Len(s)
  /\ \A m \in 1..Len(nm) : nm[m] = "." \/ nm[m] = s[pos + m - 1]
  /\ s[pos + Len(nm)] = "="
  /\ s[pos + Len(nm) + 1] = "="
  /\ s[pos + Len(nm) + 2] \in VersionChars

PatternOccurs(nm, s) == \E pos \in 1..Len(s) : PatternOccursAt(nm, s, pos)

\* the product name itself, followed by '==' and the first digit of a version
PinnedNameOccurs(nm, s) ==
  \E pos \in 1..Len(s) :
    /\ pos + Len(nm) + 2 <= Len(s)
    /\ SubSeq(s, pos, pos + Len(nm) - 1) = nm
    /\ PatternOccursAt(nm, s, pos)
    /\ s[pos + Len(nm) + 2] \in Digits

\* C6 as stated: after a pass no listed script contains the product name
\* followed by '==' and a version, and a second pass in a row writes no file
\* and leaves every content as the first pass left it.
C6_NormalizationIdempotent ==
  /\ passes >= 1 =>
       \A f \in bin[NormEnv].present : ~PinnedNameOccurs(name, bin[NormEnv].text[f])
  /\ passes >= 2 => (written = {} /\ bin[NormEnv] = bin_before)

\* the first match of old is replaced by the name in new, the text before it
\* is kept, and new is shorter than old
FirstMatchReplaced(nm, old, new) ==
  LET first == CHOOSE pos \in 1..Len(old) :
                 /\ PatternOccursAt(nm, old, pos)
                 /\ \A q \in 1..pos - 1 : ~PatternOccursAt(nm, old, q)
  IN /\ Len(new) < Len(old)
     /\ Len(new) >= first + Len(nm) - 1
     /\ SubSeq(new, 1, first - 1) = SubSeq(old, 1, first - 1)
     /\ SubSeq(new, first, first + Len(nm) - 1) = nm

Uninstalled == {log[p].argv[3][1] : p \in Events("uninstall")}
EditableInstalled == {Basename(log[p].argv[4]) : p \in Events("install")}

\* the allow-list as a set: every configured name, a group by its members
AllowSet ==
  UNION {IF t = GroupName THEN Range(GroupMembers) ELSE {t} : t \in Range(config)}
SiblingSet == {Basename(repos[n]) : n \in 1..Len(repos)}
DeclaredSet == Range(declared)
LinkSet == AllowSet \cap SiblingSet \cap DeclaredSet

\* C8: the products a linker call uninstalls and editable-installs are never
\* outside allow-list /\ siblings /\ declared dependencies, and once the
\* call has returned after a successful introspection they are exactly that
\* intersection, whatever the order of the three lists.
C8_LinksExactlyTheIntersection ==
  /\ Uninstalled \subseteq LinkSet
  /\ EditableInstalled \subseteq LinkSet
  /\ (pc = "done" /\ result = "ok" /\ config # <<>>) =>
       (Uninstalled = LinkSet /\ EditableInstalled = LinkSet)

C8_Witness ==
  /\ pc = "done"
  /\ result = "ok"
  /\ config = <<"libB", "libA">>
  /\ declared = <<"libC", "libA">>
  /\ repos = <<ProductPath("libA")>>
  /\ Uninstalled = {"libA"}
  /\ EditableInstalled = {"libA"}

\* C9: with an empty allow-list a linker call is a single step that returns
\* without any subprocess event and leaves the environment as it was.
C9_EmptyAllowListNoSubprocess ==
  [][(pc = "link" /\ config = <<>>) =>
       /\ {p \in 1..Len(log') : log'[p].op \in SubprocessOps}
            = {p \in 1..Len(log) : log[p].op \in SubprocessOps}
       /\ installed' = installed
       /\ bin' = bin
       /\ envdir_mtime' = envdir_mtime
       /\ interp' = interp
       /\ pc' # "link_loop"
       /\ result' # "raised"]_vars

C9_Witness ==
  /\ config = <<>>
  /\ pc = "done"
  /\ result = "ok"
  /\ Len(log) = 1
  /\ log[1].op = "link"

\* C10: once the link list is computed, no outcome of an uninstall or of an
\* editable install ends the loop: the call never raises from the loop, and
\* when it has returned every product of the link list has had its uninstall
\* and its editable install issued.
C10_FailureDoesNotAbortLoop ==
  /\ result = "raised" => (log[Len(log)].op = "introspect" /\ ~log[Len(log)].ok)
  /\ pc = "link_loop" =>
       /\ Cardinality(Events("uninstall")) = k - 1
       /\ Cardinality(Events("install")) = k - 1
  /\ (pc = "done" /\ result = "ok" /\ config # <<>>) =>
       /\ Cardinality(Events("uninstall")) = Len(libs)
       /\ Cardinality(Events("install")) = Len(libs)
       /\ \A n \in 1..Len(libs) :
            \E p \in Events("uninstall") :
              /\ log[p].argv[3] = <<libs[n]>>
              /\ log[p + 1].op = "install"
              /\ log[p + 1].argv[4] = ProductPath(libs[n])

C10_Witness ==
  /\ pc = "done"
  /\ result = "ok"
  /\ Len(libs) = 2
  /\ libs[1] # libs[2]
  /\ \E p, q \in Events("install") :
       /\ p < q
       /\ ~log[p].ok
       /\ ~log[p - 1].ok
       /\ log[q].ok
       /\ installed[LinkEnv][libs[2]] = "editable"

\* C11: in a linker call every editable install in the log comes directly
\* after the uninstall of the same product in the same environment, and
\* every uninstall that is not the last entry is followed by that install.
C11_UninstallBeforeInstall ==
  /\ \A p \in Events("install") :
       /\ p > 1
       /\ log[p - 1].op = "uninstall"
       /\ log[p - 1].env = log[p].env
       /\ ProductPath(log[p - 1].argv[3][1]) = log[p].argv[4]
  /\ \A p \in Events("uninstall") :
       /\ p < Len(log)
       /\ log[p + 1].op = "install"

C11_Witness ==
  /\ pc = "done"
  /\ result = "ok"
  /\ libs = <<"libA", "libB">>
  /\ \E p \in Events("uninstall") :
       log[p].argv[3] = <<"libB">> /\ ~log[p].ok /\ log[p + 1].ok

(* --------------------- dependencies-mode properties --------------------- *)
\* C12: a dependencies-mode run logs no build-tool invocation, no command
\* and no post-step; the report subprocess is run only for environments
\* whose interpreter exists; for the first environment without one an error
\* is logged, nothing follows it and the process exits with status 1.
C12_MissingInterpreterFailsReport ==
  mode = "dependencies" =>
    /\ \A p \in 1..Len(log) : log[p].op \in {"deps", "error"}
    /\ \A p \in Events("deps") : log[p].env \in interp
    /\ \A p \in Events("error") :
         /\ log[p].env \notin interp
         /\ p = Len(log)
         /\ pc = "done"
         /\ result = "exit1"
    /\ (pc = "done" /\ result = "ok") => \A n \in 1..Len(envs) : envs[n] \in interp
    /\ result = "exit1" => (log # <<>> /\ log[Len(log)].op = "error")

C12_Witness ==
  /\ mode = "dependencies"
  /\ pc = "done"
  /\ result = "exit1"
  /\ envs = <<"py26", "py27">>
  /\ Len(log) = 2
  /\ log[1].op = "deps"
  /\ log[2].op = "error"
  /\ log[2].env = "py27"

(* ---------------------- command-loop properties ------------------------- *)
\* the log entries of the command loop: a command that was run, or the error
\* logged for one whose executable is absent
CommandEntries == {p \in 1..Len(log) : log[p].op = "cmd" \/ (log[p].op = "error" /\ log[p].it >= 1)}
\* the manifest position of the command of such an entry
CommandIndex(p) == CHOOSE n \in 1..Len(Commands) : Commands[n][1] = log[p].argv[1][1]
FreshIterations == {log[q].it : q \in {r \in Events("stale") : ~log[r].ok}}

\* C14: in a default-mode run the environments are taken in the order
\* requested (the manifest's envlist when none is requested); commands are
\* run only in iterations that found their environment not stale, one after
\* the other in manifest order, a command is started only after the one
\* before it returned, a command whose executable is absent is never run,
\* and a run that ends normally has handled every command of every such
\* iteration exactly once.
C14_CommandsSequentialInOrder ==
  (mode = "default" /\ pc # "start") =>
    /\ envs = (IF \A n \in 1..Len(env_or_file) : env_or_file[n] \in cwd_paths
               THEN envlist
               ELSE SelectSeq(env_or_file, LAMBDA ef : ef \notin cwd_paths))
    /\ \A p \in Events("stale") :
         /\ log[p].env = envs[log[p].it]
         /\ \A q \in Events("stale") : p < q => log[p].it < log[q].it
    /\ \A p \in CommandEntries :
         /\ log[p].it \in FreshIterations
         /\ log[p].env = envs[log[p].it]
    /\ \A p, q \in CommandEntries :
         p < q => \/ log[p].it < log[q].it
                  \/ (log[p].it = log[q].it /\ CommandIndex(p) < CommandIndex(q))
    /\ \A p \in Events("cmd") :
         /\ bin[log[p].env].dir
         /\ log[p].argv[1][1] \in bin[log[p].env].present
         /\ ~log[p].ok => (p = Len(log) /\ result = "raised")
    /\ (pc = "done" /\ result = "ok") =>
         \A n \in FreshIterations : \A m \in 1..Len(Commands) :
           Cardinality({p \in CommandEntries : log[p].it = n /\ CommandIndex(p) = m}) = 1

C14_Witness ==
  /\ mode = "default"
  /\ pc = "done"
  /\ result = "ok"
  /\ envs = <<"py27", "py26">>
  /\ Len(log) = 6
  /\ log[2].op = "cmd" /\ log[2].env = "py27" /\ log[2].argv[1] = <<"py.test">>
  /\ log[3].op = "error" /\ log[3].env = "py27" /\ log[3].argv[1] = <<"flake8">>
  /\ log[5].op = "cmd" /\ log[5].env = "py26" /\ log[5].argv[1] = <<"py.test">>
  /\ log[6].op = "cmd" /\ log[6].env = "py26" /\ log[6].argv[1] = <<"flake8">>

\* C16 as stated: in a default-mode run every build-tool invocation made for
\* a stale environment E is scoped to E alone, and the post-steps of that
\* iteration run for E only.
C16_NestedSyncScopedToStaleEnv ==
  mode = "default" =>
    /\ \A p \in Events("tox") :
         /\ log[p - 1].op = "stale"
         /\ ScopedTo(log[p].argv, <<log[p - 1].env>>, FALSE)
    /\ \A p \in Events("strip") \cup Events("link") :
         log[p].it >= 1 /\ log[p].env = envs[log[p].it]

(* ----------------------- report-script properties ----------------------- *)
\* the positions of the per-dependency lines of the output
DependencyLines == {p \in 1..Len(rep_stdout) : rep_stdout[p].kind \in {"dist", "missing", "error"}}
LinesOf(lib) == {p \in DependencyLines : rep_stdout[p].lib = lib}

\* C13: when the script has ended, every declared dependency has exactly one
\* line of the output: its distribution line (with the location as rendered)
\* if installed, the 'is not installed' line if not, the error text if its
\* lookup raised something else; whatever the other dependencies did, no
\* line is missing and there are no further dependency lines.
C13_OneLinePerDependency ==
  /\ pc = "done" =>
       /\ Cardinality(DependencyLines) = Len(rep_libs)
       /\ \A n \in 1..Len(rep_libs) :
            LET lib == rep_libs[n]
                kind == rep_dist[lib]
            IN /\ Cardinality(LinesOf(lib)) = 1
               /\ \A p \in LinesOf(lib) :
                    /\ kind = "missing" <=> rep_stdout[p].kind = "missing"
                    /\ kind = "error" <=> rep_stdout[p].kind = "error"
                    /\ kind = "in_repo" => rep_stdout[p].loc = <<"src">>
                    /\ kind = "in_sibling" => rep_stdout[p].loc = <<"..", "libA">>
                    /\ kind = "elsewhere" => rep_stdout[p].loc = <<"usr", "lib">>
  /\ pc = "report_loop" => Len(rep_output) + Len(rep_stdout) = rep_n + 1

C13_Witness ==
  /\ pc = "done"
  /\ rep_libs = <<<<"b">>, <<"a">>>>
  /\ rep_dist[<<"a">>] = "error"
  /\ rep_dist[<<"b">>] = "in_repo"
  /\ Len(rep_stdout) = 3
  /\ rep_stdout[2] = Line("error", <<"a">>, <<>>)
  /\ rep_stdout[3] = Line("dist", <<"b">>, <<"src">>)

\* C15 as stated: the per-dependency lines of the finished output are in
\* lexicographic order of dependency name.
C15_LinesInLexicographicOrder ==
  pc = "done" =>
    \A p, q \in DependencyLines :
      p < q => ~LexLess(rep_stdout[q].lib, rep_stdout[p].lib)

\* C15 amended: the dependencies are looked up in lexicographic order; the
\* 'is not installed' and error lines are printed during the loop, in that
\* order among themselves, and the lines of the installed dependencies are
\* printed after the loop, in that order among themselves, so every
\* not-installed or error line precedes every installed line.
C15_ProblemsFirstThenInstalled ==
  pc = "done" =>
    \A p, q \in DependencyLines :
      p < q =>
        /\ rep_stdout[p].kind = "dist" => rep_stdout[q].kind = "dist"
        /\ (rep_stdout[p].kind = "dist" <=> rep_stdout[q].kind = "dist")
             => ~LexLess(rep_stdout[q].lib, rep_stdout[p].lib)

C15_Witness ==
  /\ pc = "done"
  /\ rep_libs = <<<<"b">>, <<"a">>>>
  /\ rep_stdout = <<Line("header", <<>>, <<>>),
                    Line("missing", <<"b">>, <<>>),
                    Line("dist", <<"a">>, <<"..", "libA">>)>>

(* ----------------------- bump_version properties ------------------------ *)
\* a component of the version in setup.py, a missing one counted as 0
OldComponent(n) == IF n <= Len(bump_old) THEN bump_old[n] ELSE 0

\* C17 as stated: for every version of one to three components and every
\* selection, bump_version does not fail and returns a version whose selected
\* component is one more than before (a missing one counted as 0), whose
\* components to the right are 0 and whose components to the left are unchanged.
C17_BumpIncrementsSelectedComponent ==
  (pc = "done" /\ bump_status # "pending") =>
    LET sel == SelectedIndex(bump_major, bump_minor)
    IN /\ bump_status = "returned"
       /\ Len(bump_new) >= sel
       /\ bump_new[sel] = OldComponent(sel) + 1
       /\ \A n \in 1..Len(bump_new) :
            /\ n > sel => bump_new[n] = 0
            /\ n < sel => bump_new[n] = OldComponent(n)

====
